---- MODULE Spec2Model ----
(***************************************************************************)
(* A model of src/linenoise.py: the raw-mode terminal session, the         *)
(* line-edit loop, the column probe and the history list of the linenoise  *)
(* class.  A str is a sequence of byte values (0..255).                     *)
(***************************************************************************)
EXTENDS Integers, Sequences, FiniteSets, TLC

\* ---------------------------------------------------------------------------
\* Program constants

DEFAULT_HISTORY_MAX_LEN == 100
DEFAULT_COLS == 80
CTRL_C == 3
ENTER == 13
ESC == 27
CTRL_K == 11
CTRL_P == 16
BACKSPACE == 127

\* the cap on the bytes get_cursor_position reads
RESPONSE_CAP == 32

\* ---------------------------------------------------------------------------
\* Bounds of the model

\* most history entries a state may hold
MaxEntries == 3
\* largest argument given to history_set_maxlen
MaxN == 2
\* most keystroke bytes that reach the input descriptor during one read_raw
MaxInput == 3
\* most keystroke bytes typed before the column probe has read its responses
MaxTypeAhead == 1

\* ---------------------------------------------------------------------------
\* Sequence helpers (python list and str operations)

\* s[n:]
DropFirst(s, n) == IF n >= Len(s) THEN << >> ELSE SubSeq(s, n + 1, Len(s))

\* s[:n]
TakeFirst(s, n) == IF n >= Len(s) THEN s ELSE SubSeq(s, 1, n)

\* x in s
Contains(s, x) == \E k \in 1..Len(s) : s[k] = x

\* all sequences over S of length at most n
SeqsUpTo(S, n) == UNION {[1..k -> S] : k \in 0..n}

\* ---------------------------------------------------------------------------
\* Terminal attributes (termios): the flag words are sets of flag names,
\* c_cc is reduced to VMIN and VTIME.

\* CS8 is both bits of the character-size field
CS8 == {"CS6", "CS7"}

CookedTermios ==
  [iflag |-> {"BRKINT", "ICRNL", "IXON"},
   oflag |-> {"OPOST", "ONLCR"},
   cflag |-> {"CS6", "CS7", "CREAD"},
   lflag |-> {"ECHO", "ECHOE", "ICANON", "IEXTEN", "ISIG"},
   vmin |-> 1, vtime |-> 0]

SevenBitTermios ==
  [iflag |-> {"ICRNL", "INPCK", "ISTRIP", "IXON"},
   oflag |-> {"OPOST", "ONLCR"},
   cflag |-> {"CS7", "PARENB", "CREAD"},
   lflag |-> {"ECHO", "ICANON", "ISIG"},
   vmin |-> 4, vtime |-> 2]

\* a terminal already without echo and line buffering, signals still on
CbreakTermios ==
  [iflag |-> {"ICRNL"},
   oflag |-> {"OPOST", "ONLCR"},
   cflag |-> {"CS6", "CS7", "CREAD"},
   lflag |-> {"ISIG"},
   vmin |-> 1, vtime |-> 0]


\* self.orig_termios before the first enable_rawmode: the attribute is not set
NoTermios == [unset |-> TRUE]

\* the attribute set enable_rawmode installs, from the current one
MakeRaw(t) ==
  [iflag |-> t.iflag \ {"BRKINT", "ICRNL", "INPCK", "ISTRIP", "IXON"},
   oflag |-> t.oflag \ {"OPOST"},
   cflag |-> t.cflag \cup CS8,
   lflag |-> t.lflag \ {"ECHO", "ICANON", "IEXTEN", "ISIG"},
   vmin |-> 1, vtime |-> 0]

\* attribute sets the terminal may have when the linenoise object is made; the
\* last is a terminal some other program has left raw
InitTermios == {CookedTermios, SevenBitTermios, CbreakTermios, MakeRaw(CookedTermios)}

\* ---------------------------------------------------------------------------
\* State

VARIABLES
  history,            \* self.history: list of str
  history_maxlen,     \* self.history_maxlen
  rawmode,            \* self.rawmode
  atexit_registered,  \* self.atexit_registered
  orig_termios,       \* self.orig_termios
  l,                  \* the line_state of the edit call in progress
  term,               \* attributes of the terminal on STDIN_FILENO
  tty,                \* os.isatty(STDIN_FILENO)
  inp,                \* bytes pending on the input descriptor
  eof,                \* the input descriptor has reached its end
  out,                \* bytes written to the output by the current call
  file,               \* content of the history file, or NoFile
  pc,                 \* idle (between calls), edit (in edit's loop), returned (a
                      \* call has just ended), atexit, restore, exited
  ret,                \* what the last call returned or raised
  call,               \* the last call made and its inputs
  pre,                \* the object and the terminal as they were before that call
  arrived,            \* the keystroke bytes that reached the descriptor in that call
  term0               \* the attributes the terminal had at construction

vars == <<history, history_maxlen, rawmode, atexit_registered, orig_termios, l,
          term, tty, inp, eof, out, file, pc, ret, call, pre, arrived, term0>>

session == <<rawmode, atexit_registered, orig_termios>>
hist == <<history, history_maxlen>>
input == <<inp, eof>>

\* the history file: whether it exists, and its content
NoFile == [exists |-> FALSE, content |-> << >>]
FileOf(content) == [exists |-> TRUE, content |-> content]
NoLine == [unset |-> TRUE]

\* results of a call
RetNone == [kind |-> "None", val |-> << >>]
RetInt(n) == [kind |-> "int", val |-> <<n>>]
RetStr(s) == [kind |-> "str", val |-> s]
RetRaise(e) == [kind |-> "raise", val |-> e]

Snapshot ==
  [history |-> history, history_maxlen |-> history_maxlen, rawmode |-> rawmode,
   atexit_registered |-> atexit_registered, orig_termios |-> orig_termios,
   term |-> term, file |-> file]

NoCall == [op |-> "none", arg |-> << >>]

\* a call is made from the idle caller
Called(op, arg) == pc = "idle" /\ call' = [op |-> op, arg |-> arg] /\ pre' = Snapshot

Init ==
  /\ history = << >>
  /\ history_maxlen = DEFAULT_HISTORY_MAX_LEN
  /\ rawmode = FALSE
  /\ atexit_registered = FALSE
  /\ orig_termios = NoTermios
  /\ l = NoLine
  /\ term \in InitTermios
  /\ tty \in BOOLEAN
  /\ inp = << >>
  /\ eof = FALSE
  /\ out = << >>
  /\ file = NoFile
  /\ pc = "idle"
  /\ ret = RetNone
  /\ call = NoCall
  /\ pre = Snapshot
  /\ arrived = << >>
  /\ term0 = term

\* ---------------------------------------------------------------------------
\* Raw mode session

\* self.orig_termios after enable_rawmode on a tty: a fresh snapshot of the
\* current attributes, taken whether or not the session is already raw
SavedTermios(rawmode_, orig_, term_) == term_

\* disable_rawmode without its test of self.rawmode
DisableRawmodeUnguarded(rawmode_, orig_, term_) == [term |-> orig_, rawmode |-> FALSE]

\* the terminal attributes and self.rawmode after disable_rawmode
DisableRawmodeResult(rawmode_, orig_, term_) ==
  IF rawmode_ THEN [term |-> orig_, rawmode |-> FALSE]
  ELSE [term |-> term_, rawmode |-> rawmode_]

\* the call returns: the caller has its result and is idle again
Return ==
  /\ pc = "returned"
  /\ pc' = "idle"
  /\ call' = NoCall
  /\ pre' = Snapshot
  /\ ret' = RetNone
  /\ out' = << >>
  /\ arrived' = << >>
  /\ UNCHANGED <<hist, session, l, term, tty, input, file, term0>>

\* enable_rawmode(STDIN_FILENO) as a call of its own; tcsetattr with TCSAFLUSH
\* discards the input not yet read
EnableRawmode ==
  /\ Called("enable_rawmode", << >>)
  /\ IF ~tty
       THEN /\ ret' = RetInt(-1)
            /\ UNCHANGED <<session, term, inp>>
       ELSE /\ atexit_registered' = TRUE
            /\ orig_termios' = SavedTermios(rawmode, orig_termios, term)
            /\ term' = MakeRaw(term)
            /\ inp' = << >>
            /\ rawmode' = TRUE
            /\ ret' = RetInt(0)
  /\ pc' = "returned"
  /\ UNCHANGED <<hist, l, tty, eof, out, file, arrived, term0>>

\* disable_rawmode(STDIN_FILENO) as a call of its own
DisableRawmode ==
  /\ Called("disable_rawmode", << >>)
  /\ term' = DisableRawmodeResult(rawmode, orig_termios, term).term
  /\ rawmode' = DisableRawmodeResult(rawmode, orig_termios, term).rawmode
  /\ inp' = IF rawmode THEN << >> ELSE inp
  /\ ret' = RetNone
  /\ pc' = "returned"
  /\ UNCHANGED <<hist, atexit_registered, orig_termios, l, tty, eof, out, file, arrived, term0>>

\* the interpreter exits: the functions registered with atexit run
Exit ==
  /\ Called("exit", << >>)
  /\ pc' = IF atexit_registered THEN "atexit" ELSE "exited"
  /\ UNCHANGED <<hist, session, l, term, tty, input, out, file, ret, arrived, term0>>

\* atexit: sys.stdout.write('\r'); sys.stdout.flush()
AtexitWrite ==
  /\ pc = "atexit"
  /\ out' = Append(out, 13)
  /\ pc' = "restore"
  /\ UNCHANGED <<hist, session, l, term, tty, input, file, ret, call, pre, arrived, term0>>

\* atexit: self.disable_rawmode(STDIN_FILENO)
AtexitDisable ==
  /\ pc = "restore"
  /\ term' = DisableRawmodeResult(rawmode, orig_termios, term).term
  /\ rawmode' = DisableRawmodeResult(rawmode, orig_termios, term).rawmode
  /\ inp' = IF rawmode THEN << >> ELSE inp
  /\ pc' = "exited"
  /\ UNCHANGED <<hist, atexit_registered, orig_termios, l, tty, eof, out, file, ret, call,
                 pre, arrived, term0>>

NextRaw ==
  \/ EnableRawmode
  \/ DisableRawmode
  \/ Return
  \/ Exit
  \/ AtexitWrite
  \/ AtexitDisable

\* enable_rawmode and disable_rawmode called in any order, then the exit
SpecRaw == Init /\ [][NextRaw]_vars

\* ---------------------------------------------------------------------------
\* History

\* the lines given to history_add: "", "x", "y", "z", " x"
Lines == {<< >>, <<120>>, <<121>>, <<122>>, <<32, 120>>}

\* the characters str.strip() removes: \t \n \x0b \x0c \r and space
Whitespace == {9, 10, 11, 12, 13, 32}

RECURSIVE LStrip(_)
LStrip(s) == IF s # << >> /\ Head(s) \in Whitespace THEN LStrip(Tail(s)) ELSE s

RECURSIVE RStrip(_)
RStrip(s) ==
  IF s # << >> /\ s[Len(s)] \in Whitespace THEN RStrip(SubSeq(s, 1, Len(s) - 1)) ELSE s

\* s.strip()
Strip(s) == RStrip(LStrip(s))

\* '\n'.join(lines)
RECURSIVE JoinLines(_)
JoinLines(lines) ==
  IF lines = << >> THEN << >>
  ELSE IF Len(lines) = 1 THEN lines[1]
  ELSE lines[1] \o <<10>> \o JoinLines(Tail(lines))

\* f.readlines(): the content cut after each '\n', the terminators kept
RECURSIVE ReadLines(_)
ReadLines(content) ==
  IF content = << >> THEN << >>
  ELSE IF Contains(content, 10)
    THEN LET k == CHOOSE j \in 1..Len(content) :
                    content[j] = 10 /\ \A q \in 1..(j - 1) : content[q] # 10
         IN <<SubSeq(content, 1, k)>> \o ReadLines(DropFirst(content, k))
    ELSE <<content>>

\* history_add without the eviction of the oldest entry
HistoryAddNoEvict(h, maxlen, line) ==
  IF maxlen = 0 THEN h
  ELSE IF Contains(h, line) THEN h
  ELSE Append(h, line)

\* history_add without the scan for an equal entry
HistoryAddNoDuplicateScan(h, maxlen, line) ==
  IF maxlen = 0 THEN h
  ELSE IF Len(h) = maxlen THEN Append(DropFirst(h, 1), line)
  ELSE Append(h, line)

\* self.history after history_add(line)
HistoryAddResult(h, maxlen, line) ==
  IF maxlen = 0 THEN h
  ELSE IF Contains(h, line) THEN h
  ELSE IF Len(h) = maxlen THEN Append(DropFirst(h, 1), line)
  ELSE Append(h, line)

\* history_set_maxlen truncating to the oldest entries, not the newest
HistorySetMaxlenKeepOldest(h, maxlen, n) ==
  IF n < 0 THEN [history |-> h, history_maxlen |-> maxlen]
  ELSE [history |-> TakeFirst(h, n), history_maxlen |-> n]

\* self.history and self.history_maxlen after history_set_maxlen(n)
HistorySetMaxlenResult(h, maxlen, n) ==
  IF n < 0 THEN [history |-> h, history_maxlen |-> maxlen]
  ELSE [history |-> IF Len(h) > n THEN DropFirst(h, Len(h) - n) ELSE h,
        history_maxlen |-> n]

\* what history_save writes to the file
HistorySaveContent(h) == JoinLines(h)

\* self.history after history_load, from the file
HistoryLoadResult(f) ==
  IF ~f.exists THEN << >>
  ELSE LET x == ReadLines(f.content) IN [k \in 1..Len(x) |-> Strip(x[k])]

HistoryAdd(line) ==
  /\ Len(HistoryAddResult(history, history_maxlen, line)) <= MaxEntries
  /\ Called("history_add", line)
  /\ history' = HistoryAddResult(history, history_maxlen, line)
  /\ ret' = RetNone
  /\ pc' = "returned"
  /\ UNCHANGED <<history_maxlen, session, l, term, tty, input, out, file, arrived, term0>>

HistorySetMaxlen(n) ==
  /\ Called("history_set_maxlen", n)
  /\ history' = HistorySetMaxlenResult(history, history_maxlen, n).history
  /\ history_maxlen' = HistorySetMaxlenResult(history, history_maxlen, n).history_maxlen
  /\ ret' = RetNone
  /\ pc' = "returned"
  /\ UNCHANGED <<session, l, term, tty, input, out, file, arrived, term0>>

HistorySave ==
  /\ Called("history_save", << >>)
  /\ file' = FileOf(HistorySaveContent(history))
  /\ ret' = RetNone
  /\ pc' = "returned"
  /\ UNCHANGED <<hist, session, l, term, tty, input, out, arrived, term0>>

HistoryLoad ==
  /\ Called("history_load", << >>)
  /\ history' = HistoryLoadResult(file)
  /\ ret' = RetNone
  /\ pc' = "returned"
  /\ UNCHANGED <<history_maxlen, session, l, term, tty, input, out, file, arrived, term0>>

NextHist ==
  \/ \E line \in Lines : HistoryAdd(line)
  \/ \E n \in -1..MaxN : HistorySetMaxlen(n)
  \/ HistorySave
  \/ HistoryLoad
  \/ Return

\* the history operations alone, on a terminal that is never touched
InitHist == Init /\ tty /\ term = CookedTermios

SpecHist == InitHist /\ [][NextHist]_vars

\* ---------------------------------------------------------------------------
\* Column probe

\* what os.write may report written, of n bytes: all but one, or all
WriteCounts(n) == {k \in {n - 1, n} : k >= 0}

\* '\x1b[6n'
CursorQuery == <<ESC, 91, 54, 110>>

\* '\x1b[999C'
MoveRight == <<ESC, 91, 57, 57, 57, 67>>

\* str(n) for n >= 0
RECURSIVE Decimal(_)
Decimal(n) == IF n < 10 THEN <<48 + n>> ELSE Decimal(n \div 10) \o <<48 + (n % 10)>>

\* '\x1b[%dD' % n
MoveLeft(n) == <<ESC, 91>> \o Decimal(n) \o <<68>>

\* the loop of get_cursor_position: os.read(ifd, 1) until 'R' or 32 reads; a
\* read at the end of the input gives ''
RECURSIVE ReadResponse(_, _)
ReadResponse(buf, stream) ==
  IF Len(buf) < RESPONSE_CAP
    THEN LET c == IF stream = << >> THEN << >> ELSE <<Head(stream)>>
             rest == IF stream = << >> THEN << >> ELSE Tail(stream)
         IN  IF c = <<82>>
               THEN [buf |-> Append(buf, c), rest |-> rest]
               ELSE ReadResponse(Append(buf, c), rest)
    ELSE [buf |-> buf, rest |-> stream]

\* ''.join(buf)
RECURSIVE Concat(_)
Concat(buf) == IF buf = << >> THEN << >> ELSE Head(buf) \o Concat(Tail(buf))

\* number of ';' in s
RECURSIVE CountSemi(_)
CountSemi(s) ==
  IF s = << >> THEN 0 ELSE (IF Head(s) = 59 THEN 1 ELSE 0) + CountSemi(Tail(s))

\* s.split(';')[1] of an s with one ';'
AfterSemi(s) ==
  LET k == CHOOSE j \in 1..Len(s) : s[j] = 59 IN DropFirst(s, k)

IsDigits(s) == s # << >> /\ \A k \in 1..Len(s) : s[k] \in 48..57

RECURSIVE DigitsValue(_)
DigitsValue(s) ==
  IF s = << >> THEN 0 ELSE 10 * DigitsValue(SubSeq(s, 1, Len(s) - 1)) + (s[Len(s)] - 48)

\* int(s, 10): surrounding whitespace and one sign are accepted
ParseInt(s) ==
  LET t == Strip(s)
      signed == t # << >> /\ Head(t) \in {43, 45}
      digits == IF signed THEN Tail(t) ELSE t
  IN  IF IsDigits(digits)
        THEN [ok |-> TRUE,
              val |-> IF signed /\ Head(t) = 45 THEN 0 - DigitsValue(digits)
                      ELSE DigitsValue(digits)]
        ELSE [ok |-> FALSE, val |-> 0]

\* get_cursor_position(ifd, ofd): wrote is what os.write reports for the
\* query; eof tells whether a read found the input at its end
GetCursorPosition(stream, wrote) ==
  IF wrote # 4
    THEN [val |-> -1, raised |-> FALSE, rest |-> stream, eof |-> FALSE,
          out |-> TakeFirst(CursorQuery, wrote)]
    ELSE
      LET r == ReadResponse(<< >>, stream)
          buf == r.buf
          atend == Contains(buf, << >>)
          body == Concat(SubSeq(buf, 3, Len(buf) - 1))
          cols == ParseInt(AfterSemi(body))
      IN  IF buf[1] # <<ESC>> \/ buf[2] # <<91>> \/ buf[Len(buf)] # <<82>>
            THEN [val |-> -1, raised |-> FALSE, rest |-> r.rest, eof |-> atend,
                  out |-> CursorQuery]
          ELSE IF CountSemi(body) # 1 \/ ~cols.ok
            THEN [val |-> 0, raised |-> TRUE, rest |-> r.rest, eof |-> atend,
                  out |-> CursorQuery]
          ELSE [val |-> cols.val, raised |-> FALSE, rest |-> r.rest, eof |-> atend,
                out |-> CursorQuery]

\* get_columns(ifd, ofd): winsz is the column count of the TIOCGWINSZ ioctl (0
\* also when the ioctl fails), w1, w2, w3 what os.write reports for the first
\* query, the move to the right margin and the second query
GetColumns(stream, winsz, w1, w2, w3) ==
  IF winsz # 0
    THEN [val |-> winsz, raised |-> FALSE, rest |-> stream, eof |-> FALSE, out |-> << >>]
    ELSE
      LET start == GetCursorPosition(stream, w1)
          cols == GetCursorPosition(start.rest, w3)
          moved == start.out \o TakeFirst(MoveRight, w2)
          done == [val |-> DEFAULT_COLS, raised |-> FALSE, rest |-> cols.rest,
                   eof |-> cols.eof, out |-> moved \o cols.out]
      IN  IF start.raised THEN start
          ELSE IF start.val < 0 THEN [start EXCEPT !.val = DEFAULT_COLS]
          ELSE IF w2 # 6 THEN [start EXCEPT !.val = DEFAULT_COLS, !.out = moved]
          ELSE IF cols.raised THEN [done EXCEPT !.val = 0, !.raised = TRUE]
          ELSE IF cols.val < 0 THEN done
          ELSE [done EXCEPT !.val = cols.val,
                            !.out = moved \o cols.out \o
                                    (IF cols.val > start.val
                                       THEN MoveLeft(cols.val - start.val)
                                       ELSE << >>)]

\* ESC [ 1 ; col R, the terminal's report of a cursor in column col
Report(col) == <<ESC, 91, 49, 59>> \o Decimal(col) \o <<82>>

\* responses that deviate from ESC [ rows ; cols R: nothing at all, no trailing
\* R, more than 32 bytes before R, a wrong first byte, a wrong second byte, no
\* numbers, one number, three numbers, a column that is not a number
Deviating ==
  {<< >>,
   <<ESC, 91, 49, 59, 49>>,
   <<ESC, 91, 49, 59>> \o [k \in 1..30 |-> 49] \o <<82>>,
   <<120, 91, 49, 59, 49, 82>>,
   <<ESC, 120, 49, 59, 49, 82>>,
   <<ESC, 91, 82>>,
   <<ESC, 91, 53, 82>>,
   <<ESC, 91, 49, 59, 50, 59, 51, 82>>,
   <<ESC, 91, 49, 59, 120, 82>>}

\* the columns the cursor is in when get_columns is called, and the widths of
\* the terminal
StartColumns == {1, 3}

Widths == {5}

\* what one get_columns call meets: the column count of the window-size ioctl,
\* what os.write reports for the three writes, the terminal's cursor column and
\* width, and its responses to the two queries; pending is what was left
\* unread on the input, and while there is some the terminal sends nothing new
ColumnEnvs ==
  [winsz : {0, DEFAULT_COLS}, w1 : WriteCounts(4), w2 : WriteCounts(6), w3 : WriteCounts(4),
   col : StartColumns, width : Widths, pending : {inp},
   first : IF eof \/ inp # << >> THEN {<< >>}
           ELSE {Report(c) : c \in StartColumns} \cup Deviating,
   second : IF eof \/ inp # << >> THEN {<< >>}
            ELSE {Report(w) : w \in Widths} \cup Deviating]

\* get_columns(ifd, ofd) called on the terminal
GetColumnsCall ==
  \E env \in ColumnEnvs :
    LET r == GetColumns(inp \o env.first \o env.second, env.winsz, env.w1, env.w2, env.w3)
    IN  /\ env.first \in Deviating \/ env.first = Report(env.col)
        /\ Called("get_columns", env)
        /\ ret' = IF r.raised THEN RetRaise("ValueError") ELSE RetInt(r.val)
        /\ inp' = r.rest
        /\ eof' = (eof \/ r.eof)
        /\ out' = r.out
        /\ pc' = "returned"
        /\ UNCHANGED <<hist, session, l, term, tty, file, arrived, term0>>

NextProbe ==
  \/ GetColumnsCall
  \/ Return

\* get_columns alone, on a terminal
SpecProbe == InitHist /\ [][NextProbe]_vars

\* ---------------------------------------------------------------------------
\* Line editing

\* line_state(ifd, ofd, prompt), with the column count get_columns gave
LineState(prompt, cols) ==
  [buf |-> << >>, prompt |-> prompt, pos |-> 0, oldpos |-> 0, cols |-> cols,
   maxrows |-> 0, history_index |-> 0]

\* the line state after edit_insert(l, c)
EditInsert(ls, c) ==
  IF Len(ls.buf) = ls.pos
    THEN [ls EXCEPT !.buf = Append(ls.buf, c), !.pos = ls.pos + 1]
    ELSE ls

\* what edit_insert(l, c) writes to the output
EditInsertOutput(ls, c) == IF Len(ls.buf) = ls.pos THEN <<c>> ELSE << >>

\* the prompts read_raw is called with: '>'
Prompts == {<<62>>}

\* the bytes a user types: Ctrl-C, Enter, 'R', 'h', 'i'
KeyBytes == {CTRL_C, ENTER, 82, 104, 105}

\* what the terminal sends in answer to the cursor queries: nothing (the
\* queries never reach it), row 1 column 1 then row 1 column 5, a response
\* without numbers
ProbeAnswers ==
  {<< >>,
   <<ESC, 91, 49, 59, 49, 82, ESC, 91, 49, 59, 53, 82>>,
   <<ESC, 91, 82>>}

\* what get_columns meets in one read_raw call: the column count of the
\* window-size ioctl (0 also stands for its failure), what os.write reports
\* for the three probe writes, the terminal's answer and the keystrokes typed
\* before the probe has read its responses. The terminal answers only when it
\* is queried.
ProbeEnvs ==
  {[winsz |-> DEFAULT_COLS, w1 |-> 4, w2 |-> 6, w3 |-> 4, answer |-> << >>, keys |-> << >>]}
  \cup
  [winsz : {0}, w1 : WriteCounts(4), w2 : WriteCounts(6), w3 : WriteCounts(4),
   answer : IF eof THEN {<< >>} ELSE ProbeAnswers,
   keys : IF eof THEN {<< >>} ELSE SeqsUpTo(KeyBytes, MaxTypeAhead)]

\* what os.read(ifd, 1) may give in edit's loop: the next pending byte; at the
\* end of the input ''; otherwise a byte the user types now, or '' when the
\* input ends now
ReadsFrom(keys) ==
  IF inp # << >> THEN {<<Head(inp)>>}
  ELSE IF eof THEN {<< >>}
  ELSE {<< >>} \cup {<<c>> : c \in IF Len(arrived) < MaxInput THEN keys ELSE {}}

Reads == ReadsFrom(KeyBytes)

\* the rest of read_raw once edit has returned: disable_rawmode, '\r\n', return
ReadRawReturn(rawmode_, orig_, term_, result) ==
  /\ term' = DisableRawmodeResult(rawmode_, orig_, term_).term
  /\ rawmode' = DisableRawmodeResult(rawmode_, orig_, term_).rawmode
  /\ inp' = IF rawmode_ THEN << >> ELSE inp
  /\ l' = NoLine
  /\ ret' = result
  /\ pc' = "returned"

\* read_raw(prompt) up to the first read of edit's loop: enable_rawmode, the
\* line_state with its column probe, history_add('') and the prompt; envs is
\* what the column probe may meet
ReadRawStartIn(prompt, envs) ==
  IF ~tty
    THEN /\ Called("read_raw", [prompt |-> prompt, winsz |-> 0, wrote |-> 0, answer |-> << >>,
                                probed |-> 0])
         /\ ret' = RetNone
         /\ pc' = "returned"
         /\ UNCHANGED <<hist, session, l, term, tty, input, out, file, arrived, term0>>
    ELSE \E env \in envs, wrote \in WriteCounts(Len(prompt)) :
           LET probe == GetColumns(env.answer \o env.keys, env.winsz, env.w1, env.w2, env.w3)
               saved == SavedTermios(rawmode, orig_termios, term)
           IN
           /\ Called("read_raw", [prompt |-> prompt, winsz |-> env.winsz, wrote |-> wrote,
                                  answer |-> env.answer,
                                  probed |-> Len(env.answer \o env.keys) - Len(probe.rest)])
           /\ arrived' = env.keys
           /\ atexit_registered' = TRUE
           /\ orig_termios' = saved
           /\ eof' = (eof \/ probe.eof)
           /\ IF probe.raised
                THEN \* line_state() raised: the exception leaves edit and read_raw
                     /\ term' = MakeRaw(term)
                     /\ rawmode' = TRUE
                     /\ inp' = probe.rest
                     /\ out' = probe.out
                     /\ l' = NoLine
                     /\ ret' = RetRaise("ValueError")
                     /\ pc' = "returned"
                     /\ UNCHANGED hist
                ELSE /\ history' = HistoryAddResult(history, history_maxlen, << >>)
                     /\ UNCHANGED history_maxlen
                     /\ IF wrote # Len(prompt)
                          THEN /\ out' = probe.out \o TakeFirst(prompt, wrote) \o <<13, 10>>
                               /\ ReadRawReturn(TRUE, saved, MakeRaw(term), RetNone)
                          ELSE /\ term' = MakeRaw(term)
                               /\ rawmode' = TRUE
                               /\ inp' = probe.rest
                               /\ out' = probe.out \o prompt
                               /\ l' = LineState(prompt, probe.val)
                               /\ pc' = "edit"
                               /\ UNCHANGED ret
           /\ UNCHANGED <<tty, file, term0>>

ReadRawStart(prompt) == ReadRawStartIn(prompt, ProbeEnvs)

\* what edit returns when its loop ends on byte c with buffer buf: the line on
\* Enter, None on Ctrl-C; a mutation returns the line on Ctrl-C too
EditReturnLineOnInterrupt(c, buf) == RetStr(buf)

EditReturn(c, buf) == IF c = ENTER THEN RetStr(buf) ELSE RetNone

\* one turn of edit's loop, the user typing bytes of keys: c = ord(os.read(ifd,
\* 1)), then Enter, Ctrl-C or edit_insert; when edit ends read_raw finishes
EditByteFrom(keys) ==
  /\ pc = "edit"
  /\ \E rd \in ReadsFrom(keys) :
       /\ arrived' = IF inp = << >> THEN arrived \o rd ELSE arrived
       /\ IF rd = << >>
            THEN \* ord('') raises TypeError, which leaves edit and read_raw
                 /\ eof' = TRUE
                 /\ ret' = RetRaise("TypeError")
                 /\ l' = NoLine
                 /\ pc' = "returned"
                 /\ UNCHANGED <<session, term, inp, out>>
            ELSE LET c == rd[1] IN
                 /\ UNCHANGED eof
                 /\ IF c = ENTER \/ c = CTRL_C
                      THEN /\ out' = out \o <<13, 10>>
                           /\ ReadRawReturn(rawmode, orig_termios, term, EditReturn(c, l.buf))
                           /\ UNCHANGED <<atexit_registered, orig_termios>>
                    ELSE /\ l' = EditInsert(l, c)
                         /\ out' = out \o EditInsertOutput(l, c)
                         /\ inp' = IF inp = << >> THEN inp ELSE Tail(inp)
                         /\ UNCHANGED <<session, term, pc, ret>>
  /\ UNCHANGED <<hist, tty, file, call, pre, term0>>

EditByte == EditByteFrom(KeyBytes)

\* the bytes typed in the sessions that exercise the control keys: Ctrl-C,
\* Enter, 'h', Backspace, Ctrl-K
EditKeys == {CTRL_C, ENTER, 104, BACKSPACE, CTRL_K}

EditByteKeys == EditByteFrom(EditKeys)

InitKeys == Init /\ tty /\ term = CookedTermios

NextKeys ==
  \/ \E prompt \in Prompts : ReadRawStart(prompt)
  \/ EditByteKeys
  \/ Return

\* read_raw on a terminal whose user types control keys
SpecKeys == InitKeys /\ [][NextKeys]_vars

\* the lines of the sessions that mix history calls and edit: 'first', 'second'
LineFirst == <<102, 105, 114, 115, 116>>

LineSecond == <<115, 101, 99, 111, 110, 100>>

EditLines == {LineFirst, LineSecond}

\* the bytes typed in these sessions: Ctrl-C, Enter, Ctrl-P, 'h'
HistKeys == {CTRL_C, ENTER, CTRL_P, 104}

EditByteHist == EditByteFrom(HistKeys)

\* the column probe when nothing is typed before it has read its responses
QuietEnvs == {env \in ProbeEnvs : env.keys = << >>}

ReadRawQuiet(prompt) == ReadRawStartIn(prompt, QuietEnvs)

NextEdit ==
  \/ \E line \in EditLines : HistoryAdd(line)
  \/ \E n \in -1..MaxN : HistorySetMaxlen(n)
  \/ \E prompt \in Prompts : ReadRawQuiet(prompt)
  \/ EditByteHist
  \/ Return

\* history_add, history_set_maxlen and read_raw on a new object, without
\* history_load
SpecEdit == InitKeys /\ [][NextEdit]_vars

\* what sys.stdin.readline() and raw_input meet on the input: its end, an
\* empty line, the line 'h', a last line 'h' without newline
InputLines == {<< >>, <<10>>, <<104, 10>>, <<104>>}

\* s.strip('\n')
RECURSIVE StripNewlines(_)
StripNewlines(s) ==
  IF s = << >> THEN s
  ELSE IF Head(s) = 10 THEN StripNewlines(Tail(s))
  ELSE IF s[Len(s)] = 10 THEN StripNewlines(SubSeq(s, 1, Len(s) - 1))
  ELSE s

\* what read_no_tty returns when readline gives line
ReadNoTtyResult(line) ==
  LET s == StripNewlines(line) IN IF s = << >> THEN RetNone ELSE RetStr(s)

\* what read_unsupported_term returns when raw_input meets line: raw_input
\* raises EOFError at the end of the input and drops the trailing newline
ReadUnsupportedResult(line) ==
  IF line = << >> THEN RetNone
  ELSE IF line[Len(line)] = 10 THEN RetStr(SubSeq(line, 1, Len(line) - 1))
  ELSE RetStr(line)

\* read(prompt): read_no_tty when stdin is not a terminal, read_unsupported_term
\* when TERM names an unsupported terminal, else read_raw
Read(prompt) ==
  IF ~tty
    THEN \E line \in IF eof THEN {<< >>} ELSE InputLines :
           /\ Called("read", [path |-> "no_tty", line |-> line])
           /\ eof' = (line = << >> \/ line[Len(line)] # 10)
           /\ ret' = ReadNoTtyResult(line)
           /\ pc' = "returned"
           /\ UNCHANGED <<hist, session, l, term, tty, inp, out, file, arrived, term0>>
    ELSE \/ \E line \in IF eof THEN {<< >>} ELSE InputLines :
              /\ Called("read", [path |-> "unsupported_term", line |-> line])
              /\ eof' = (line = << >> \/ line[Len(line)] # 10)
              /\ out' = prompt
              /\ ret' = ReadUnsupportedResult(line)
              /\ pc' = "returned"
              /\ UNCHANGED <<hist, session, l, term, tty, inp, file, arrived, term0>>
         \/ ReadRawStart(prompt)

NextRead ==
  \/ \E prompt \in Prompts : Read(prompt)
  \/ EditByte
  \/ Return

\* read on a pipe, on an unsupported terminal and on a terminal
SpecRead == Init /\ [][NextRead]_vars

NextTerm ==
  \/ EnableRawmode
  \/ DisableRawmode
  \/ \E prompt \in Prompts : ReadRawStart(prompt)
  \/ EditByte
  \/ Return
  \/ Exit
  \/ AtexitWrite
  \/ AtexitDisable

\* the raw mode session and read_raw
SpecTerm == Init /\ [][NextTerm]_vars

\* every operation of the object; the properties below are checked under its
\* parts SpecRaw, SpecTerm, SpecHist, SpecKeys, SpecEdit, SpecRead and SpecProbe
Next == NextTerm \/ NextHist \/ NextKeys \/ NextEdit \/ NextRead \/ NextProbe

Spec == Init /\ [][Next]_vars

\* ---------------------------------------------------------------------------
\* Properties of the raw mode session

\* C1: once enable_rawmode has succeeded inside read_raw, every way read_raw can
\* stop (Enter, Ctrl-C, a short prompt write, the end of the input, an error
\* raised while a byte is read in edit) leaves the terminal with the attributes
\* it had before the call and the rawmode flag false.
C1_ReadRawRestoresTerminal ==
  (/\ pc = "returned"
   /\ call.op = "read_raw"
   /\ tty
   /\ ret.kind = "raise" => ret.val = "TypeError")
  => (rawmode = FALSE /\ term = pre.term)

\* C2: after any sequence of enable_rawmode and disable_rawmode calls that ends
\* with disable_rawmode, the terminal has the attributes it had before the
\* first enable_rawmode.
C2_DisableRestoresOriginal ==
  (pc = "returned" /\ call.op = "disable_rawmode") => term = term0

\* C3: disable_rawmode called with the rawmode flag false changes neither the
\* terminal attributes nor any field of the object, and a second
\* disable_rawmode right after any disable_rawmode would change nothing.
C3_DisableIdempotent ==
  (pc = "returned" /\ call.op = "disable_rawmode") =>
    /\ ~pre.rawmode =>
         /\ term = pre.term
         /\ rawmode = pre.rawmode
         /\ atexit_registered = pre.atexit_registered
         /\ orig_termios = pre.orig_termios
         /\ history = pre.history
         /\ history_maxlen = pre.history_maxlen
    /\ rawmode = FALSE
    /\ DisableRawmodeResult(rawmode, orig_termios, term) = [term |-> term, rawmode |-> rawmode]

\* disable_rawmode has been called on a session that was raw before and no
\* longer is
C3_Witness ==
  /\ pc = "returned"
  /\ call.op = "disable_rawmode"
  /\ ~pre.rawmode
  /\ pre.orig_termios # NoTermios
  /\ term = pre.term

\* C4: if enable_rawmode has ever succeeded, the hook runs at exit: it writes a
\* carriage return before it touches the terminal attributes, and after it the
\* rawmode flag is false and the terminal has its original attributes.
C4_ExitHookRestoresOriginal ==
  pre.atexit_registered =>
    /\ pc = "restore" => (out = <<13>> /\ term = pre.term /\ rawmode = pre.rawmode)
    /\ pc = "exited" => (out = <<13>> /\ rawmode = FALSE /\ term = term0)

\* ---------------------------------------------------------------------------
\* Properties of the column probe

\* C15: when the window-size query gives 0 columns and a response of the
\* terminal deviates from ESC [ rows ; cols R (the first one, after which the
\* terminal sends nothing more, or the second one after a good first one),
\* get_columns returns 80 and does not raise.
C15_DeviatingResponseGivesDefault ==
  (/\ pc = "returned"
   /\ call.op = "get_columns"
   /\ call.arg.winsz = 0
   /\ call.arg.pending = << >>
   /\ \/ call.arg.first \in Deviating /\ call.arg.second = << >>
      \/ /\ call.arg.first = Report(call.arg.col)
         /\ call.arg.w1 = 4 /\ call.arg.w2 = 6 /\ call.arg.w3 = 4
         /\ call.arg.second \in Deviating)
  => (ret.kind = "int" /\ ret.val = <<DEFAULT_COLS>>)

\* the cursor column of a terminal of the given width after it has received
\* bytes: ESC [ n C moves right and ESC [ n D left by n columns, within the
\* line; an unfinished sequence moves nothing
RECURSIVE CursorAfter(_, _, _)
CursorAfter(bytes, col, width) ==
  IF bytes = << >> THEN col
  ELSE IF Len(bytes) >= 2 /\ bytes[1] = ESC /\ bytes[2] = 91
    THEN LET ends == {k \in 3..Len(bytes) : bytes[k] \notin 48..57}
         IN  IF ends = {} THEN col
             ELSE LET k == CHOOSE j \in ends : \A q \in ends : j <= q
                      digits == SubSeq(bytes, 3, k - 1)
                      n == IF digits = << >> THEN 1 ELSE DigitsValue(digits)
                      moved == IF bytes[k] = 67
                                 THEN (IF col + n > width THEN width ELSE col + n)
                               ELSE IF bytes[k] = 68
                                 THEN (IF col - n < 1 THEN 1 ELSE col - n)
                               ELSE col
                  IN  CursorAfter(DropFirst(bytes, k), moved, width)
  ELSE CursorAfter(Tail(bytes), col, width)

\* C19: whenever get_columns has taken the escape-sequence fallback and moved
\* the cursor to the right margin with ESC [ 999 C, the cursor column when it
\* returns or raises is the column it had at the call.
C19_CursorRestored ==
  (/\ pc = "returned"
   /\ call.op = "get_columns"
   /\ call.arg.winsz = 0
   /\ call.arg.pending = << >>
   /\ call.arg.w1 = 4
   /\ call.arg.first = Report(call.arg.col)
   /\ call.arg.w2 = 6)
  => CursorAfter(out, call.arg.col, call.arg.width) = call.arg.col

\* ---------------------------------------------------------------------------
\* Properties of edit

Printable(c) == c \in 32..126

\* the bytes that reached the input descriptor during the read_raw call
DescriptorStream == call.arg.answer \o arrived

\* C10: when the bytes that reach the input are printable bytes followed by
\* Enter, edit returns exactly the bytes before the first Enter, in their
\* order, and has echoed them to the output (here: the prompt was written in
\* full and the input has not ended).
C10_EditReturnsTypedBytes ==
  (/\ pc = "returned"
   /\ call.op = "read_raw"
   /\ tty
   /\ ~eof
   /\ call.arg.wrote = Len(call.arg.prompt)
   /\ \E k \in 1..Len(DescriptorStream) :
        /\ DescriptorStream[k] = ENTER
        /\ \A j \in 1..(k - 1) : Printable(DescriptorStream[j]))
  => LET k == CHOOSE j \in 1..Len(DescriptorStream) :
                /\ DescriptorStream[j] = ENTER
                /\ \A q \in 1..(j - 1) : DescriptorStream[q] # ENTER
         typed == SubSeq(DescriptorStream, 1, k - 1)
         tail == typed \o <<13, 10>>
     IN  /\ ret.kind = "str"
         /\ ret.val = typed
         /\ Len(out) >= Len(tail)
         /\ SubSeq(out, Len(out) - Len(tail) + 1, Len(out)) = tail

\* the bytes that reached the input descriptor after the column probe had taken
\* its responses: the bytes edit's loop reads
EditStream == DropFirst(DescriptorStream, call.arg.probed)

\* the bytes edit's loop has read so far
LoopRead == SubSeq(EditStream, 1, Len(EditStream) - Len(inp))

\* a line after the keys are typed into it, Backspace erasing the last byte
RECURSIVE Erased(_, _)
Erased(line, keys) ==
  IF keys = << >> THEN line
  ELSE IF Head(keys) = BACKSPACE
    THEN Erased(SubSeq(line, 1, Len(line) - 1), Tail(keys))
  ELSE Erased(Append(line, Head(keys)), Tail(keys))

\* C11: a Backspace read by edit removes the byte before pos and decrements
\* pos, and changes nothing at pos = 0: after printable bytes and Backspaces the
\* buffer is what is left of the typed bytes, and h, Backspace, Enter returns
\* the empty line.
C11_BackspaceErases ==
  /\ (/\ pc = "edit"
      /\ \A k \in 1..Len(LoopRead) : Printable(LoopRead[k]) \/ LoopRead[k] = BACKSPACE)
     => (l.buf = Erased(<< >>, LoopRead) /\ l.pos = Len(l.buf))
  /\ (/\ pc = "returned"
      /\ call.op = "read_raw"
      /\ tty
      /\ call.arg.wrote = Len(call.arg.prompt)
      /\ EditStream = <<104, BACKSPACE, ENTER>>)
     => (ret.kind = "str" /\ ret.val = << >>)

\* C12: whenever edit's loop reads Ctrl-C before any Enter, edit gives None,
\* whatever the buffer holds then; it never returns the bytes typed before the
\* Ctrl-C (the loop runs when the prompt was written in full and line_state did
\* not raise).
C12_InterruptCancels ==
  (/\ pc = "returned"
   /\ call.op = "read_raw"
   /\ tty
   /\ call.arg.wrote = Len(call.arg.prompt)
   /\ ret.kind = "raise" => ret.val = "TypeError"
   /\ \E k \in 1..Len(EditStream) :
        /\ EditStream[k] = CTRL_C
        /\ \A j \in 1..(k - 1) : EditStream[j] # ENTER)
  => ret.kind = "None"

\* Ctrl-C has been read with 'h' in the buffer
C12_Witness ==
  /\ pc = "returned"
  /\ call.op = "read_raw"
  /\ call.arg.wrote = Len(call.arg.prompt)
  /\ EditStream = <<104, CTRL_C>>
  /\ ret.kind = "None"

\* a byte that is neither printable nor a control code of the editor: not
\* Enter, Ctrl-C, Backspace or a history key
Unrecognized(c) == ~Printable(c) /\ c \notin {ENTER, CTRL_C, BACKSPACE, CTRL_P}

\* C16: a byte read by edit that is neither printable nor a recognized control
\* code is ignored: while only printable and such bytes have been read, the
\* buffer holds the printable ones, pos is its length, and the output is the
\* prompt and their echo (here: the window size was known, so that the column
\* probe has written nothing).
C16_UnrecognizedIgnored ==
  (/\ pc = "edit"
   /\ call.arg.winsz # 0
   /\ \A k \in 1..Len(LoopRead) : Printable(LoopRead[k]) \/ Unrecognized(LoopRead[k]))
  => /\ l.buf = SelectSeq(LoopRead, Printable)
     /\ l.pos = Len(l.buf)
     /\ out = call.arg.prompt \o l.buf

\* C13: after history_add('first'), history_add('second') and the start of an
\* edit, one Ctrl-P makes the buffer 'second', a second one 'first', and a
\* third one leaves it 'first'.
C13_PreviousWalksHistory ==
  (/\ pc = "edit"
   /\ pre.history = <<LineFirst, LineSecond>>
   /\ pre.history_maxlen = DEFAULT_HISTORY_MAX_LEN)
  => /\ LoopRead = <<CTRL_P>> => l.buf = LineSecond
     /\ LoopRead = <<CTRL_P, CTRL_P>> => l.buf = LineFirst
     /\ LoopRead = <<CTRL_P, CTRL_P, CTRL_P>> => l.buf = LineFirst

\* C17: when edit ends, its empty placeholder entry is gone from the history:
\* after Enter with a non-empty line the newest entry is that line, and after
\* Ctrl-C or an empty line the history is what it was before the call.
C17_PlaceholderRemoved ==
  (/\ pc = "returned"
   /\ call.op = "read_raw"
   /\ tty
   /\ call.arg.wrote = Len(call.arg.prompt)
   /\ ret.kind # "raise")
  => IF ret.kind = "str" /\ ret.val # << >>
       THEN history # << >> /\ history[Len(history)] = ret.val
       ELSE history = pre.history

\* C18: at the start of every edit, after its history_add(''), the newest
\* history entry is the empty string (here: with a history that keeps entries,
\* history_maxlen > 0).
C18_NewestEntryIsBuffer ==
  (pc = "edit" /\ LoopRead = << >> /\ history_maxlen > 0) =>
    (history # << >> /\ history[Len(history)] = << >>)

\* the first of Enter and Ctrl-C among the bytes edit's loop reads, 0 if none
FirstStop ==
  IF \E k \in 1..Len(EditStream) : EditStream[k] \in {ENTER, CTRL_C}
    THEN CHOOSE k \in 1..Len(EditStream) :
           /\ EditStream[k] \in {ENTER, CTRL_C}
           /\ \A j \in 1..(k - 1) : EditStream[j] \notin {ENTER, CTRL_C}
    ELSE 0

\* C14: the results of read keep the end of the input, an entered empty line
\* and a cancel by Ctrl-C apart. On a pipe the result for an empty line differs
\* from the result at the end of the input; on a terminal the result is the
\* empty string exactly for an empty line, None exactly for Ctrl-C, and
\* neither of the two at the end of the input.
C14_OutcomesApart ==
  /\ (/\ pc = "returned"
      /\ call.op = "read"
      /\ call.arg.path = "no_tty"
      /\ call.arg.line = <<10>>)
     => ret # ReadNoTtyResult(<< >>)
  /\ (/\ pc = "returned"
      /\ call.op = "read_raw"
      /\ tty
      /\ call.arg.wrote = Len(call.arg.prompt)
      /\ ret.kind = "raise" => ret.val = "TypeError")
     => /\ (FirstStop = 1 /\ EditStream[1] = ENTER)
             <=> (ret.kind = "str" /\ ret.val = << >>)
        /\ (FirstStop > 0 /\ EditStream[FirstStop] = CTRL_C) <=> ret.kind = "None"
        /\ FirstStop = 0 => ret.kind = "raise"

\* ---------------------------------------------------------------------------
\* Properties of the history

NoDuplicates(s) == \A j, k \in 1..Len(s) : j # k => s[j] # s[k]

\* C5: after any sequence of history_add, history_set_maxlen and history_load
\* calls, no two entries of the history are equal.
C5_NoTwoEntriesEqual == NoDuplicates(history)

\* C6: after any sequence of history_add, history_set_maxlen and history_load
\* calls, the history has at most history_maxlen entries.
C6_LengthAtMostMaxlen == Len(history) <= history_maxlen

\* C7: history_add(line) leaves the history unchanged when history_maxlen is 0
\* or line equals an existing entry; otherwise the oldest entry goes if the
\* history is at capacity, and line is appended as the newest entry, the other
\* entries keeping their order.
C7_HistoryAdd ==
  (pc = "returned" /\ call.op = "history_add") =>
    LET h == pre.history
        m == pre.history_maxlen
        line == call.arg
    IN  /\ history_maxlen = m
        /\ IF m = 0 \/ (\E k \in 1..Len(h) : h[k] = line)
             THEN history = h
             ELSE IF Len(h) = m
               THEN /\ Len(history) = m
                    /\ history[m] = line
                    /\ \A k \in 1..(m - 1) : history[k] = h[k + 1]
               ELSE /\ Len(history) = Len(h) + 1
                    /\ history[Len(h) + 1] = line
                    /\ \A k \in 1..Len(h) : history[k] = h[k]

\* with maxlen 2, adding z to [x, y] gives exactly [y, z]
C7_Witness ==
  /\ call.op = "history_add"
  /\ call.arg = <<122>>
  /\ pre.history_maxlen = 2
  /\ pre.history = <<<<120>>, <<121>>>>
  /\ history = <<<<121>>, <<122>>>>

\* C8: history_set_maxlen(n) with n < 0 changes neither history_maxlen nor the
\* history; with n >= 0 it sets history_maxlen to n and keeps exactly the
\* newest n entries, in their order, when there are more than n, and all the
\* entries otherwise.
C8_HistorySetMaxlen ==
  (pc = "returned" /\ call.op = "history_set_maxlen") =>
    LET h == pre.history
        n == call.arg
    IN  IF n < 0
          THEN history = h /\ history_maxlen = pre.history_maxlen
          ELSE /\ history_maxlen = n
               /\ IF Len(h) > n
                    THEN /\ Len(history) = n
                         /\ \A k \in 1..n : history[k] = h[Len(h) - n + k]
                    ELSE history = h

\* a history of three entries is cut to its newest one
C8_Witness ==
  /\ call.op = "history_set_maxlen"
  /\ call.arg = 1
  /\ Len(pre.history) = 3
  /\ history = <<pre.history[3]>>

\* C9: history_load of the file history_save wrote gives back the saved
\* history, entry for entry and in the same order.
C9_SaveThenLoad ==
  (/\ pc = "returned"
   /\ call.op = "history_load"
   /\ pre.file = FileOf(HistorySaveContent(pre.history)))
  => history = pre.history

\* C20: from a new object, history_add, history_set_maxlen and edit calls (no
\* history_load) keep the history entries pairwise distinct and their number
\* at most history_maxlen, in every state.
C20_DistinctAndBounded ==
  NoDuplicates(history) /\ Len(history) <= history_maxlen

\* an edit has started on a full history of two lines: its history_add('')
\* evicted the oldest
C20_Witness ==
  /\ pc = "edit"
  /\ pre.history_maxlen = 2
  /\ Len(pre.history) = 2
  /\ ~Contains(pre.history, << >>)
  /\ history = <<pre.history[2], << >>>>

====
